---- MODULE Spec2Model ----
(***************************************************************************)
(* actual2csv: export of a ledger's transactions into one CSV file.        *)
(*                                                                         *)
(* The model follows src/csv.go (NewCSVWriter, Add, transactionToRow),     *)
(* src/unnamed/part_000 (main, failWithMsg) and the entity types of        *)
(* src/actual_client.go.  encoding/csv and bufio are modelled from their   *)
(* documented behaviour as far as csv.go relies on it: csv.Writer buffers  *)
(* into a bufio.Writer whose first failed write is remembered and returned *)
(* by every later write or flush.                                          *)
(*                                                                         *)
(* Widths.  TLC's integers are 32 bits wide, so int64 is kept as a two's   *)
(* complement integer of IntBits bits and float64's 53-bit significand as  *)
(* a significand of MantBits bits; every operator below is written for     *)
(* the widths as parameters (Go: IntBits = 64, MantBits = 53).             *)
(*                                                                         *)
(* Bytes.  A stream (the file, the bufio buffer) is a sequence of tokens:  *)
(* one token per csv field and one "\n" token ending each record, so a     *)
(* short write can cut a record between two fields.                        *)
(***************************************************************************)
EXTENDS Integers, Sequences, FiniteSets, TLC

(* ------------------------------ bounds ------------------------------- *)

\* width of Transaction.Amount (int64 in the source)
IntBits == 24
\* width of the float64 significand
MantBits == 20
\* capacity of the bufio buffer inside csv.Writer, in tokens (4096 bytes in Go)
BufSize == 10
\* longest category / payee listing a fetch returns
MaxListLen == 2
\* longest transaction listing a fetch returns, longest batch given to Add
MaxBatch == 2
\* number of Add calls a client of the writer makes
MaxCalls == 2
\* number of accounts a listing returns
MaxAccounts == 2

(* ------------------------------ entities ----------------------------- *)

\* type Account struct {ID, Name, Closed}
Account(id, name, closed) == [ID |-> id, Name |-> name, Closed |-> closed]

\* type Category struct {ID, Name, IsIncome}; IsIncome is the field csv.go reads
Category(id, name, isIncome) == [ID |-> id, Name |-> name, IsIncome |-> isIncome]

\* type Payee struct {ID, Name}
Payee(id, name) == [ID |-> id, Name |-> name]

\* type Transaction struct {ID, AccountID, CategoryID, Amount, PayeeID, Notes, Date, Error}
Transaction(id, acct, cat, amount, payee, notes, date, err) ==
    [ID |-> id, AccountID |-> acct, CategoryID |-> cat, Amount |-> amount,
     PayeeID |-> payee, Notes |-> notes, Date |-> date, Error |-> err]

\* Category{}: the zero value the map lookup yields for a missing key
ZeroCategory == Category("", "", FALSE)

\* Payee{}: the zero value the map lookup yields for a missing key
ZeroPayee == Payee("", "")

\* var headers
headers == <<"account", "date", "payee", "amount", "category", "notes", "error">>

\* the placeholder literal of transactionToRow
FIXME == "FIXME"

(* ------------------------------ integers ----------------------------- *)

Pow2(n) == 2 ^ n

MinInt == 0 - Pow2(IntBits - 1)

MaxInt == Pow2(IntBits - 1) - 1

Abs(n) == IF n < 0 THEN 0 - n ELSE n

\* the value an int64 expression wraps to
WrapInt(n) == ((n + Pow2(IntBits - 1)) % Pow2(IntBits)) - Pow2(IntBits - 1)

\* n / d rounded to the nearest integer, ties to the even one (n >= 0, d > 0)
RoundHalfEven(n, d) ==
    LET q == n \div d
        r == n % d
    IN  IF 2 * r < d THEN q
        ELSE IF 2 * r > d THEN q + 1
        ELSE q + (q % 2)

(* ------------------------------- floats ------------------------------ *)
\* A float is [neg, m, e]: the value (-1)^neg * m * 2^e, with m = 0 or
\* 2^(MantBits-1) <= m < 2^MantBits.

FloatZero == [neg |-> FALSE, m |-> 0, e |-> 0]

\* m in 2^(MantBits-1) .. 2^MantBits, brought back into the significand's range
Normalize(neg, m, e) ==
    IF m = Pow2(MantBits) THEN [neg |-> neg, m |-> Pow2(MantBits - 1), e |-> e + 1]
    ELSE [neg |-> neg, m |-> m, e |-> e]

\* float64(n): exact while |n| < 2^MantBits, rounded to nearest-even above
Float64FromInt(n) ==
    LET a == Abs(n)
    IN  IF a = 0 THEN FloatZero
        ELSE IF a < Pow2(MantBits)
        THEN LET s == CHOOSE s \in 0..(MantBits - 1) :
                          /\ Pow2(MantBits - 1) <= a * Pow2(s)
                          /\ a * Pow2(s) < Pow2(MantBits)
             IN  [neg |-> n < 0, m |-> a * Pow2(s), e |-> 0 - s]
        ELSE LET s == CHOOSE s \in 1..IntBits :
                          /\ Pow2(MantBits - 1) <= a \div Pow2(s)
                          /\ a \div Pow2(s) < Pow2(MantBits)
             IN  Normalize(n < 0, RoundHalfEven(a, Pow2(s)), s)

\* f / 100.0, correctly rounded
FloatDiv100(f) ==
    IF f.m = 0 THEN f
    ELSE LET k == IF f.m * Pow2(7) < 100 * Pow2(MantBits) THEN 7 ELSE 6
         IN  Normalize(f.neg, RoundHalfEven(f.m * Pow2(k), 100), f.e - k)

\* n as two decimal digits (0 <= n <= 99)
TwoDigits(n) == ToString(n \div 10) \o ToString(n % 10)

\* fmt.Sprintf("%.2f", f): the exact value of f rounded to two fraction digits,
\* ties to even, "-" for a negative f
Sprintf2f(f) ==
    LET cents == IF f.e >= 0 THEN f.m * Pow2(f.e) * 100
                 ELSE RoundHalfEven(f.m * 100, Pow2(0 - f.e))
    IN  (IF f.neg THEN "-" ELSE "") \o ToString(cents \div 100) \o "."
            \o TwoDigits(cents % 100)

\* "%.2f" that cuts the digits after the second instead of rounding
Sprintf2fTrunc(f) ==
    LET cents == IF f.e >= 0 THEN f.m * Pow2(f.e) * 100
                 ELSE (f.m * 100) \div Pow2(0 - f.e)
    IN  (IF f.neg THEN "-" ELSE "") \o ToString(cents \div 100) \o "."
            \o TwoDigits(cents % 100)

\* FormatAmount with the truncating conversion
FormatAmountTrunc(amount) == Sprintf2fTrunc(FloatDiv100(Float64FromInt(amount)))

\* fmt.Sprintf("%.2f", float64(transaction.Amount)/100.0)
FormatAmount(amount) == Sprintf2f(FloatDiv100(Float64FromInt(amount)))

(* --------------------------- name resolution ------------------------- *)

\* m[key] of a Go map: the entry, or the zero value when the key is missing
Lookup(m, key, zero) == IF key \in DOMAIN m THEN m[key] ELSE zero

\* for _, e := range list { m[e.ID] = e }: a later entry replaces an earlier one
BuildMap(list) ==
    [k \in {list[i].ID : i \in 1..Len(list)} |->
        list[CHOOSE i \in 1..Len(list) :
                /\ list[i].ID = k
                /\ \A j \in (i + 1)..Len(list) : list[j].ID # k]]

\* payeeName of transactionToRow
PayeeName(payeeMap, transaction) ==
    LET p == Lookup(payeeMap, transaction.PayeeID, ZeroPayee)
    IN  IF p # ZeroPayee THEN p.Name ELSE FIXME

\* Posting that keeps the account on the account side for an income category
PostingNoSwap(categoryMap, account, transaction) ==
    LET c == Lookup(categoryMap, transaction.CategoryID, ZeroCategory)
    IN  IF c # ZeroCategory
        THEN IF c.IsIncome
             THEN [accountName |-> account.Name, categoryName |-> c.Name,
                   Amount |-> WrapInt(transaction.Amount * (0 - 1))]
             ELSE [accountName |-> account.Name, categoryName |-> c.Name,
                   Amount |-> transaction.Amount]
        ELSE [accountName |-> FIXME, categoryName |-> FIXME,
              Amount |-> transaction.Amount]

\* Posting that names the account although the category is unresolved
PostingKeepAccount(categoryMap, account, transaction) ==
    LET c == Lookup(categoryMap, transaction.CategoryID, ZeroCategory)
    IN  IF c # ZeroCategory
        THEN IF c.IsIncome
             THEN [accountName |-> c.Name, categoryName |-> account.Name,
                   Amount |-> WrapInt(transaction.Amount * (0 - 1))]
             ELSE [accountName |-> account.Name, categoryName |-> c.Name,
                   Amount |-> transaction.Amount]
        ELSE [accountName |-> account.Name, categoryName |-> FIXME,
              Amount |-> transaction.Amount]

\* accountName, categoryName and the (possibly flipped) amount of transactionToRow
Posting(categoryMap, account, transaction) ==
    LET c == Lookup(categoryMap, transaction.CategoryID, ZeroCategory)
    IN  IF c # ZeroCategory
        THEN IF c.IsIncome
             THEN [accountName |-> c.Name, categoryName |-> account.Name,
                   Amount |-> WrapInt(transaction.Amount * (0 - 1))]
             ELSE [accountName |-> account.Name, categoryName |-> c.Name,
                   Amount |-> transaction.Amount]
        ELSE [accountName |-> FIXME, categoryName |-> FIXME,
              Amount |-> transaction.Amount]

\* errorMsg of transactionToRow
ErrorMsg(transaction) ==
    IF transaction.Error # "" THEN "[FIXME] " \o transaction.Error ELSE ""

\* func (w *csvWriter) transactionToRow(account, transaction) []string
transactionToRow(categoryMap, payeeMap, account, transaction) ==
    LET post == Posting(categoryMap, account, transaction)
    IN  << post.accountName,
           transaction.Date,
           PayeeName(payeeMap, transaction),
           FormatAmount(post.Amount),
           post.categoryName,
           transaction.Notes,
           ErrorMsg(transaction) >>

(* ------------------------- csv.Writer over bufio --------------------- *)
\* A writer state is [file, buf, err, writes]: the file's tokens, the tokens in
\* bufio's buffer, whether bufio.Writer.err is set, and how many Write calls
\* the file has received during the operation at hand.  A fault [at, n] makes
\* the at-th of these calls fail after n tokens (at = 0: none fails).

NoFault == [at |-> 0, n |-> 0]

Min(a, b) == IF a < b THEN a ELSE b

\* csv.Writer.Write's bytes for one record: its fields, then the line end
Encode(record) == record \o <<"\n">>

RECURSIVE EncodeAll(_)
\* the bytes of a list of records
EncodeAll(records) ==
    IF records = <<>> THEN <<>>
    ELSE Encode(Head(records)) \o EncodeAll(Tail(records))

\* bufio.Writer.Flush: hand the buffer to the file; a failed or short write
\* keeps the unwritten rest and sets err, which every later call returns
FlushBuf(w, fault) ==
    IF w.err \/ w.buf = <<>> THEN w
    ELSE IF fault.at = w.writes + 1
    THEN LET j == Min(fault.n, Len(w.buf) - 1)
         IN  [file |-> w.file \o SubSeq(w.buf, 1, j),
              buf |-> SubSeq(w.buf, j + 1, Len(w.buf)),
              err |-> TRUE, writes |-> w.writes + 1]
    ELSE [file |-> w.file \o w.buf, buf |-> <<>>, err |-> FALSE,
          writes |-> w.writes + 1]

\* PutToken once the full buffer has been flushed into w2
PutAfterFlush(w2, t) == IF w2.err THEN w2 ELSE [w2 EXCEPT !.buf = Append(@, t)]

\* bufio.Writer.WriteString / WriteByte of one token: flush first when the
\* buffer is full, do nothing once err is set
PutToken(w, t, fault) ==
    IF w.err THEN w
    ELSE IF Len(w.buf) >= BufSize THEN PutAfterFlush(FlushBuf(w, fault), t)
    ELSE [w EXCEPT !.buf = Append(@, t)]

RECURSIVE WriteTokens(_, _, _)
\* csv.Writer.Write of the records whose bytes are toks; it fails iff err is set after it
WriteTokens(w, toks, fault) ==
    IF toks = <<>> THEN w
    ELSE WriteTokens(PutToken(w, Head(toks), fault), Tail(toks), fault)

\* csv.Writer.WriteAll: Write each record, then return Flush's error
WriteAll(w, records, fault) == FlushBuf(WriteTokens(w, EncodeAll(records), fault), fault)

\* a writer state at the start of an operation: no Write call made yet
Start(f, b, e) == [file |-> f, buf |-> b, err |-> e, writes |-> 0]

\* NewCSVWriter after o.w.Write(headers) left the writer in w1: panic on its
\* error, else o.w.Flush(), whose outcome is not looked at
NewReturn(w1, fault) ==
    IF w1.err
    THEN [file |-> w1.file, buf |-> w1.buf, err |-> w1.err, panicked |-> TRUE]
    ELSE [FlushBuf(w1, fault) EXCEPT !.writes = 0] @@ [panicked |-> FALSE]

\* func NewCSVWriter(w io.Writer, categories, payeeMap) CSVWriter, on a file holding f
NewCSVWriter(f, fault) ==
    NewReturn(WriteTokens(Start(f, <<>>, FALSE), Encode(headers), fault), fault)

\* the rows of one batch, in input order
Rows(categoryMap, payeeMap, acct, txns) ==
    [i \in 1..Len(txns) |-> transactionToRow(categoryMap, payeeMap, acct, txns[i])]

\* what Add hands back: the writer's state and the returned error
Returned(w, ret) == [file |-> w.file, buf |-> w.buf, err |-> w.err, ret |-> ret]

\* AddReturn that drops WriteAll's error and always reports success
AddReturnDropError(w1, fault) == Returned(FlushBuf(w1, fault), "nil")

\* Add after w.w.WriteAll(rows) left the writer in w1: return its error, else
\* w.w.Flush() and return nil
AddReturn(w1, fault) ==
    IF w1.err THEN Returned(w1, "err") ELSE Returned(FlushBuf(w1, fault), "nil")

\* Add without the early return for an empty list
AddNoGuard(w, categoryMap, payeeMap, acct, txns, fault) ==
    AddReturn(WriteAll(Start(w.file, w.buf, w.err),
                       Rows(categoryMap, payeeMap, acct, txns), fault), fault)

\* Add that writes the header in front of every batch
AddWithHeader(w, categoryMap, payeeMap, acct, txns, fault) ==
    IF Len(txns) = 0 THEN Returned(w, "nil")
    ELSE AddReturn(WriteAll(Start(w.file, w.buf, w.err),
                            <<headers>> \o Rows(categoryMap, payeeMap, acct, txns),
                            fault), fault)

\* func (w *csvWriter) Add(acct Account, txns []Transaction) error
Add(w, categoryMap, payeeMap, acct, txns, fault) ==
    IF Len(txns) = 0 THEN Returned(w, "nil")
    ELSE AddReturn(WriteAll(Start(w.file, w.buf, w.err),
                            Rows(categoryMap, payeeMap, acct, txns), fault), fault)

\* failWithMsg that writes its message at the start of a truncated file
failWithMsgOverwrite(f, msg, written) == IF written THEN <<"[FIXME] " \o msg>> ELSE f

\* func failWithMsg(w *os.File, msg string): the file after w.WriteString, whose
\* error is dropped (written: whether the write went through)
failWithMsg(f, msg, written) == IF written THEN f \o <<"[FIXME] " \o msg>> ELSE f

(* ------------------------------- state ------------------------------- *)

VARIABLES
    pc,                 \* where the run stands
    categoryMap,        \* csvWriter.categoryMap
    payeeMap,           \* csvWriter.payeeMap
    rowAcct,            \* transactionToRow's account argument
    rowTxn,             \* transactionToRow's transaction argument
    row,                \* transactionToRow's result
    file,               \* the tokens the output file holds
    created,            \* whether os.Create has made the output file
    buf,                \* the tokens buffered in csv.Writer's bufio.Writer
    bufErr,             \* bufio.Writer.err # nil: a write to the file has failed
    writer,             \* "none", "ready" (NewCSVWriter returned) or "panicked"
    batch,              \* the transactions of the latest Add call
    ret,                \* what the latest Add call returned: "none", "nil", "err"
    calls,              \* number of Add calls made
    sent,               \* the rows of every Add call so far, in call order
    allOk,              \* every Add call so far returned nil
    accounts,           \* the account listing main iterates
    idx,                \* main's position in accounts
    totalTransactions   \* main's totalTransactions

vars == << pc, categoryMap, payeeMap, rowAcct, rowTxn, row, file, created, buf,
           bufErr, writer, batch, ret, calls, sent, allOk, accounts, idx,
           totalTransactions >>

rowVars == << rowAcct, rowTxn, row >>

writerVars == << file, created, buf, bufErr, writer, batch, ret, calls, sent, allOk >>

mainVars == << accounts, idx, totalTransactions >>

(* ------------------------------- inputs ------------------------------ *)

\* below it float64(A)/100 is within 0.005 of A/100 (Go: 100 * 2^46)
ExactLimit == 100 * Pow2(MantBits - 7)

Ids == {"", "c1"}

Names == {"", "Salary"}

PayeeIds == {"", "p1"}

PayeeNames == {"", "Employer"}

Categories == {Category(i, n, b) : i \in Ids, n \in Names, b \in BOOLEAN}

Payees == {Payee(i, n) : i \in PayeeIds, n \in PayeeNames}

Accounts == {Account("a1", "Checking", FALSE), Account("a2", "Savings", FALSE)}

Amounts ==
    (-3..3) \cup (27..31)
    \cup {99, 100, 101, -4200, 4200, 500000, -500000}
    \cup {ExactLimit - 1, ExactLimit, ExactLimit + 1, 1 - ExactLimit, 0 - ExactLimit,
          0 - ExactLimit - 1}
    \cup {Pow2(MantBits) - 1, Pow2(MantBits) + 1, MinInt, MinInt + 1, MaxInt - 1, MaxInt}

\* the listings a fetch can return: every sequence of at most n elements of S
ListsOf(S, n) == UNION {[1..k -> S] : k \in 0..n}

RowTransactions ==
    {Transaction("t1", a, c, amt, p, "", "2024-03-15", e) :
        a \in {"a1"}, c \in Ids \cup {"c2"}, amt \in Amounts,
        p \in PayeeIds \cup {"p2"}, e \in {"", "dup"}}

(* ---------------- transactionToRow on its own (SpecRow) -------------- *)

InitCommon ==
    /\ categoryMap = BuildMap(<<>>)
    /\ payeeMap = BuildMap(<<>>)
    /\ rowAcct = Account("", "", FALSE)
    /\ rowTxn = Transaction("", "", "", 0, "", "", "", "")
    /\ row = <<>>
    /\ file = <<>>
    /\ created = FALSE
    /\ buf = <<>>
    /\ bufErr = FALSE
    /\ writer = "none"
    /\ batch = <<>>
    /\ ret = "none"
    /\ calls = 0
    /\ sent = <<>>
    /\ allOk = TRUE
    /\ accounts = <<>>
    /\ idx = 0
    /\ totalTransactions = 0

InitRow == pc = "maps" /\ InitCommon

\* main's "Build name maps": both maps from the fetched listings
RowBuildMaps ==
    /\ pc = "maps"
    /\ \E cats \in ListsOf(Categories, MaxListLen), pays \in ListsOf(Payees, MaxListLen) :
          /\ categoryMap' = BuildMap(cats)
          /\ payeeMap' = BuildMap(pays)
    /\ pc' = "transform"
    /\ UNCHANGED << rowVars, writerVars, mainVars >>

\* one call of transactionToRow
RowTransform ==
    /\ pc = "transform"
    /\ \E a \in Accounts, t \in RowTransactions :
          /\ rowAcct' = a
          /\ rowTxn' = t
          /\ row' = transactionToRow(categoryMap, payeeMap, a, t)
    /\ pc' = "row"
    /\ UNCHANGED << categoryMap, payeeMap, writerVars, mainVars >>

NextRow == RowBuildMaps \/ RowTransform

SpecRow == InitRow /\ [][NextRow]_vars

\* the category the row's transaction resolves to
RowCategory == Lookup(categoryMap, rowTxn.CategoryID, ZeroCategory)

RowCategoryMapped == rowTxn.CategoryID \in DOMAIN categoryMap

\* A/100 written exactly: |A| div 100, ".", |A| mod 100 as two digits, "-" iff A < 0
ExactDecimal(A) ==
    (IF A < 0 THEN "-" ELSE "") \o ToString(Abs(A) \div 100) \o "."
        \o TwoDigits(Abs(A) % 100)

\* the amount transactionToRow formats: the stored one, negated (in int64) for income
RowAmount ==
    IF RowCategoryMapped /\ RowCategory.IsIncome
    THEN WrapInt(0 - rowTxn.Amount) ELSE rowTxn.Amount

\* C1: a transaction whose category id maps to an income category gets the
\* category's display name in the account column (field 1) and the input
\* account's display name in the category column (field 5).
C1_IncomeSwapsColumns ==
    (pc = "row" /\ RowCategoryMapped /\ RowCategory.IsIncome)
        => (row[1] = RowCategory.Name /\ row[5] = rowAcct.Name)

C1_Witness ==
    /\ pc = "row"
    /\ RowCategoryMapped
    /\ RowCategory = Category("", "", TRUE)
    /\ rowAcct.Name = "Checking"
    /\ row[1] = ""
    /\ row[5] = "Checking"

\* C2: for an income category and every amount A of the integer type, the
\* minimum included, the rendered amount is that of the arithmetic negation -A.
C2_IncomeAmountNegated ==
    (pc = "row" /\ RowCategoryMapped /\ RowCategory.IsIncome)
        => row[4] = FormatAmount(0 - rowTxn.Amount)

\* C3 as stated: for every amount A (after the flip for income) the rendered
\* amount is A/100 with exactly two fraction digits: |A| div 100, |A| mod 100 as
\* two digits, and "-" exactly when A < 0.
C3_AmountExactAlways == (pc = "row") => row[4] = ExactDecimal(RowAmount)

\* C3 amended: the same, for every amount A (after the flip) with
\* |A| < ExactLimit, where the float division is still within half a cent.
C3_AmountExactBelowLimit ==
    (pc = "row" /\ Abs(RowAmount) < ExactLimit) => row[4] = ExactDecimal(RowAmount)

C3_Witness ==
    /\ pc = "row"
    /\ rowTxn.Amount = 500000
    /\ row = <<"Salary", "2024-03-15", "Employer", "-5000.00", "Checking", "", "">>

\* C4: a transaction whose category id has no entry in the category map (the
\* empty id included) gets "FIXME" in the account and the category column and
\* its amount rendered with the stored sign.
C4_UnmappedCategoryPlaceholders ==
    (pc = "row" /\ ~RowCategoryMapped)
        => /\ row[1] = FIXME
           /\ row[5] = FIXME
           /\ row[4] = FormatAmount(rowTxn.Amount)
           /\ (Abs(rowTxn.Amount) < ExactLimit => row[4] = ExactDecimal(rowTxn.Amount))

C4_Witness ==
    /\ pc = "row"
    /\ ~RowCategoryMapped
    /\ rowTxn.CategoryID = ""
    /\ rowTxn.Amount = -4200
    /\ row = <<"FIXME", "2024-03-15", "FIXME", "-42.00", "FIXME", "", "">>

\* C5: a transaction whose payee id is empty or has no entry in the payee map
\* gets "FIXME" in the payee column whatever the payee map holds; any other
\* transaction gets the mapped payee's display name.
C5_EmptyOrUnmappedPayeePlaceholder ==
    (pc = "row")
        => IF rowTxn.PayeeID = "" \/ rowTxn.PayeeID \notin DOMAIN payeeMap
           THEN row[3] = FIXME
           ELSE row[3] = payeeMap[rowTxn.PayeeID].Name

\* C6: a transaction whose category id has an entry with is_income = false,
\* whatever the entry's id and display name, gets the category's display name
\* in the category column, the account's display name in the account column,
\* and its amount rendered with the stored sign.
C6_ExpenseKeepsColumns ==
    (pc = "row" /\ RowCategoryMapped /\ ~RowCategory.IsIncome)
        => /\ row[5] = RowCategory.Name
           /\ row[1] = rowAcct.Name
           /\ row[4] = FormatAmount(rowTxn.Amount)

(* ---------------- the writer under any client (SpecWriter) ----------- *)

\* where a failing write to the file stops: before the first token, inside a
\* record, at the end of the first record
PartialLens == {0, 3, 8}

Faults == {NoFault} \cup {[at |-> k, n |-> j] : k \in 1..MaxBatch, j \in PartialLens}

WriterTransactions ==
    {Transaction("t1", "a1", "c1", 500000, "p1", "", "2024-03-15", ""),
     Transaction("t2", "a1", "", -4200, "", "", "2024-03-15", "")}

WriterCategoryLists == {<<>>, <<Category("c1", "Salary", TRUE)>>}

WriterPayeeLists == {<<Payee("p1", "Employer")>>}

InitWriter == pc = "new" /\ InitCommon

\* the writer's variables after NewCSVWriter on the file, under a fault
Construct(fault) ==
    \E r \in {NewCSVWriter(file, fault)} :
        /\ file' = r.file
        /\ buf' = r.buf
        /\ bufErr' = r.err
        /\ writer' = IF r.panicked THEN "panicked" ELSE "ready"

\* one Add call on the writer as it stands, under a fault
AddOutcome(acct, txns, fault) ==
    Add([file |-> file, buf |-> buf, err |-> bufErr],
        categoryMap, payeeMap, acct, txns, fault)

\* the writer's variables, the file apart, after an Add call that came out as r
AddEffects(r, acct, txns) ==
    /\ buf' = r.buf
    /\ bufErr' = r.err
    /\ ret' = r.ret
    /\ batch' = txns
    /\ calls' = calls + 1
    /\ allOk' = (allOk /\ r.ret = "nil")
    /\ sent' = IF r.ret = "nil"
               THEN sent \o Rows(categoryMap, payeeMap, acct, txns) ELSE sent

\* a client constructs the writer on a fresh stream
WriterNew ==
    /\ pc = "new"
    /\ \E cats \in WriterCategoryLists, pays \in WriterPayeeLists :
          /\ categoryMap' = BuildMap(cats)
          /\ payeeMap' = BuildMap(pays)
    /\ created' = TRUE
    /\ \E fault \in Faults : Construct(fault)
    /\ pc' = IF writer' = "ready" THEN "add" ELSE "exit"
    /\ UNCHANGED << rowVars, batch, ret, calls, sent, allOk, mainVars >>

\* a client calls Add, with any batch, whatever the earlier calls returned
WriterAdd ==
    /\ pc = "add"
    /\ calls < MaxCalls
    /\ \E txns \in ListsOf(WriterTransactions, MaxBatch), fault \in Faults :
          \E r \in {AddOutcome(Account("a1", "Checking", FALSE), txns, fault)} :
              /\ file' = r.file
              /\ AddEffects(r, Account("a1", "Checking", FALSE), txns)
    /\ UNCHANGED << pc, categoryMap, payeeMap, rowVars, created, writer, mainVars >>

NextWriter == WriterNew \/ WriterAdd

SpecWriter == InitWriter /\ [][NextWriter]_vars

\* s is an initial part of t
IsPrefix(s, t) == Len(s) <= Len(t) /\ SubSeq(t, 1, Len(s)) = s

\* C7: in every state of the writer, also after an earlier write failure, Add
\* called with an empty list leaves the csv buffer and the stream as they are,
\* flushes nothing and returns no error.
C7_EmptyAddIsNoOp ==
    [][(calls' = calls + 1 /\ batch' = <<>>)
          => (file' = file /\ buf' = buf /\ bufErr' = bufErr /\ ret' = "nil")]_vars

C7_Witness ==
    /\ writer = "ready"
    /\ calls >= 2
    /\ batch = <<>>
    /\ ret = "nil"
    /\ bufErr
    /\ ~allOk

\* C9: NewCSVWriter never returns a usable writer when the header could not be
\* written to the destination, also when the stream rejects it only at Flush.
C9_HeaderFailureIsFatal == (writer = "ready") => IsPrefix(Encode(headers), file)

\* C10: after Add calls that each returned without error the stream itself
\* holds the header followed by one row per transaction, batches in call order
\* and rows in input order.
C10_StreamHoldsHeaderAndRows ==
    (writer = "ready" /\ allOk) => file = Encode(headers) \o EncodeAll(sent)

\* what is left of C10 once the header has reached the file: every row of every
\* successful Add is in the file, in order, and none is still buffered
FlushedWhenIntact ==
    (writer = "ready" /\ allOk /\ IsPrefix(Encode(headers), file))
        => (file = Encode(headers) \o EncodeAll(sent) /\ buf = <<>>)

\* the bytes of the batch of the Add call that a step of SpecWriter makes
BatchBytes ==
    EncodeAll(Rows(categoryMap, payeeMap, Account("a1", "Checking", FALSE), batch'))

\* C11: an Add call with a non-empty batch whose write to the stream fails
\* returns an error, writes nothing after the failure (no retry), and returns
\* nil only when every row of the batch has reached the stream; on a stream
\* that had failed before, it returns the error and writes nothing.
C11_WriteFailureReturned ==
    [][(calls' = calls + 1 /\ batch' # <<>>)
          => /\ ret' \in {"nil", "err"}
             /\ (ret' = "nil") <=> ~bufErr'
             /\ bufErr => (ret' = "err" /\ file' = file /\ buf' = buf)
             /\ ~bufErr =>
                  \A all \in {file \o buf \o BatchBytes} :
                      /\ ret' = "nil" => (file' = all /\ buf' = <<>>)
                      /\ ret' = "err" => /\ IsPrefix(file, file')
                                         /\ Len(file') < Len(all)
                                         /\ IsPrefix(file' \o buf', all)]_vars

\* a first Add was cut inside a record by a failing flush and returned the
\* error; a second Add with a non-empty batch on the failed stream did too
C11_Witness ==
    /\ writer = "ready"
    /\ calls = 2
    /\ batch # <<>>
    /\ ret = "err"
    /\ bufErr
    /\ IsPrefix(Encode(headers), file)
    /\ Len(file) > Len(Encode(headers))
    /\ file[Len(file)] # "\n"

(* --------------------------- main (Spec) ----------------------------- *)

MainAccounts == {Account("a1", "Checking", FALSE), Account("a3", "Old", TRUE)}

\* failWithMsg's messages as they reach the file
FailMessages ==
    {"[FIXME] " \o m : m \in {"Failed to fetch categories", "Failed to fetch payees",
                              "Failed to fetch accounts", "Failed to fetch transactions",
                              "Failed to write transactions"}}

Init == pc = "create" /\ InitCommon

\* failWithMsg(file, msg) on the file as it stands, then log.Fatal
Fail(msg) ==
    /\ \E written \in BOOLEAN : file' = failWithMsg(file, msg, written)
    /\ pc' = "exit"

\* os.MkdirAll and os.Create succeed: the output file exists and is empty
MainCreate ==
    /\ pc = "create"
    /\ created' = TRUE
    /\ file' = <<>>
    /\ pc' = "fetchCategories"
    /\ UNCHANGED << categoryMap, payeeMap, rowVars, buf, bufErr, writer, batch, ret,
                    calls, sent, allOk, mainVars >>

\* os.MkdirAll or os.Create fails: log.Fatalf, no file
MainCreateFails ==
    /\ pc = "create"
    /\ pc' = "exit"
    /\ UNCHANGED << categoryMap, payeeMap, rowVars, writerVars, mainVars >>

\* FetchCategories returns a listing; categoryMap is built from it
MainFetchCategories ==
    /\ pc = "fetchCategories"
    /\ \E cats \in WriterCategoryLists : categoryMap' = BuildMap(cats)
    /\ pc' = "fetchPayees"
    /\ UNCHANGED << payeeMap, rowVars, writerVars, mainVars >>

MainFetchCategoriesFails ==
    /\ pc = "fetchCategories"
    /\ Fail("Failed to fetch categories")
    /\ UNCHANGED << categoryMap, payeeMap, rowVars, created, buf, bufErr, writer, batch,
                    ret, calls, sent, allOk, mainVars >>

\* FetchPayees returns a listing; payeeMap is built from it
MainFetchPayees ==
    /\ pc = "fetchPayees"
    /\ \E pays \in WriterPayeeLists : payeeMap' = BuildMap(pays)
    /\ pc' = "fetchAccounts"
    /\ UNCHANGED << categoryMap, rowVars, writerVars, mainVars >>

MainFetchPayeesFails ==
    /\ pc = "fetchPayees"
    /\ Fail("Failed to fetch payees")
    /\ UNCHANGED << categoryMap, payeeMap, rowVars, created, buf, bufErr, writer, batch,
                    ret, calls, sent, allOk, mainVars >>

\* FetchAccounts returns the listing main iterates
MainFetchAccounts ==
    /\ pc = "fetchAccounts"
    /\ \E accts \in ListsOf(MainAccounts, MaxAccounts) : accounts' = accts
    /\ pc' = "newWriter"
    /\ UNCHANGED << categoryMap, payeeMap, rowVars, writerVars, idx, totalTransactions >>

MainFetchAccountsFails ==
    /\ pc = "fetchAccounts"
    /\ Fail("Failed to fetch accounts")
    /\ UNCHANGED << categoryMap, payeeMap, rowVars, created, buf, bufErr, writer, batch,
                    ret, calls, sent, allOk, mainVars >>

\* csvWriter := NewCSVWriter(file, categoryMap, payeeMap)
MainNewCSVWriter ==
    /\ pc = "newWriter"
    /\ \E fault \in Faults : Construct(fault)
    /\ pc' = IF writer' = "ready" THEN "loop" ELSE "exit"
    /\ idx' = 1
    /\ UNCHANGED << categoryMap, payeeMap, rowVars, created, batch, ret, calls, sent,
                    allOk, accounts, totalTransactions >>

InLoop == pc = "loop" /\ idx <= Len(accounts)

\* if account.Closed { continue }
MainSkipClosed ==
    /\ InLoop
    /\ accounts[idx].Closed
    /\ idx' = idx + 1
    /\ UNCHANGED << pc, categoryMap, payeeMap, rowVars, writerVars, accounts,
                    totalTransactions >>

\* FetchTransactions fails: failWithMsg, which ends the run
MainFetchTransactionsFails ==
    /\ InLoop
    /\ ~accounts[idx].Closed
    /\ Fail("Failed to fetch transactions")
    /\ UNCHANGED << categoryMap, payeeMap, rowVars, created, buf, bufErr, writer, batch,
                    ret, calls, sent, allOk, mainVars >>

\* FetchTransactions returns no transaction: continue
MainNoTransactions ==
    /\ InLoop
    /\ ~accounts[idx].Closed
    /\ idx' = idx + 1
    /\ UNCHANGED << pc, categoryMap, payeeMap, rowVars, writerVars, accounts,
                    totalTransactions >>

\* FetchTransactions returns transactions and csvWriter.Add is called on them;
\* on its error failWithMsg ends the run
MainAdd ==
    /\ InLoop
    /\ ~accounts[idx].Closed
    /\ \E txns \in ListsOf(WriterTransactions, MaxBatch) \ {<<>>}, fault \in Faults :
          \E r \in {AddOutcome(accounts[idx], txns, fault)} :
              /\ AddEffects(r, accounts[idx], txns)
              /\ IF r.ret = "err"
                 THEN /\ \E written \in BOOLEAN :
                            file' = failWithMsg(r.file, "Failed to write transactions",
                                                written)
                      /\ pc' = "exit"
                      /\ UNCHANGED << idx, totalTransactions >>
                 ELSE /\ file' = r.file
                      /\ pc' = "loop"
                      /\ idx' = idx + 1
                      /\ totalTransactions' = totalTransactions + Len(txns)
    /\ UNCHANGED << categoryMap, payeeMap, rowVars, created, writer, accounts >>

\* the loop is over: main returns
MainDone ==
    /\ pc = "loop"
    /\ idx > Len(accounts)
    /\ pc' = "done"
    /\ UNCHANGED << categoryMap, payeeMap, rowVars, writerVars, mainVars >>

Next ==
    \/ MainCreate
    \/ MainCreateFails
    \/ MainFetchCategories
    \/ MainFetchCategoriesFails
    \/ MainFetchPayees
    \/ MainFetchPayeesFails
    \/ MainFetchAccounts
    \/ MainFetchAccountsFails
    \/ MainNewCSVWriter
    \/ MainSkipClosed
    \/ MainFetchTransactionsFails
    \/ MainNoTransactions
    \/ MainAdd
    \/ MainDone

Spec == Init /\ [][Next]_vars

\* the file without failWithMsg's message at its end
FileBody(f) ==
    IF f # <<>> /\ f[Len(f)] \in FailMessages THEN SubSeq(f, 1, Len(f) - 1) ELSE f

\* how many written records of f are the header
HeaderCount(f) ==
    Cardinality({i \in 1..(Len(f) - Len(headers)) :
                    /\ (i = 1 \/ f[i - 1] = "\n")
                    /\ SubSeq(f, i, i + Len(headers)) = Encode(headers)})

\* C8 as stated: every output file the program creates holds, on every run
\* path, the header exactly once, at its start, before any data row.
C8_HeaderExactlyOnce ==
    (created /\ (writer = "ready" \/ pc \in {"done", "exit"}))
        => (IsPrefix(Encode(headers), file) /\ HeaderCount(file) = 1)

\* C8 amended: the header is written at most once and before any data row:
\* the file holds either no more than a cut-off part of the header, or the
\* complete header once, at its start, followed by data rows -- in both cases
\* possibly followed by failWithMsg's message.
C8_HeaderAtMostOnceAndFirst ==
    \/ /\ Len(FileBody(file)) < Len(Encode(headers))
       /\ IsPrefix(FileBody(file), Encode(headers))
    \/ /\ IsPrefix(Encode(headers), FileBody(file))
       /\ HeaderCount(file) = 1

C8_Witness ==
    /\ pc = "done"
    /\ calls = 2
    /\ allOk
    /\ IsPrefix(Encode(headers), file)
    /\ Len(file) >= 3 * Len(Encode(headers))

\* C12: across the whole run the output file is only ever appended to, and
\* the header and the rows of the Add calls that returned nil stay an unchanged
\* prefix of it, also after a later Add failed and failWithMsg wrote its
\* "[FIXME] " message.
C12_FileAppendOnly ==
    [][/\ IsPrefix(file, file')
       /\ sent' # <<>> => IsPrefix(Encode(headers) \o EncodeAll(sent'), file')]_vars

\* one account's batch was flushed, the next account's Add failed and
\* failWithMsg's message is the last thing in the file
C12_Witness ==
    /\ pc = "exit"
    /\ sent # <<>>
    /\ calls = 2
    /\ ret = "err"
    /\ Len(file) > Len(Encode(headers) \o EncodeAll(sent))
    /\ file[Len(file)] = "[FIXME] Failed to write transactions"

====
